---- MODULE Spec2Model ----
(***************************************************************************)
(* Model of the job-digest pipeline of src/daily_job_search.py: one run of  *)
(* main() (run gate, per-source collection, deduplication, seen-cache       *)
(* filter, optional re-score, sinks, delivery, commit), repeated over       *)
(* successive invocations that share the SeenCache and RunState files.      *)
(*                                                                         *)
(* Time is counted in hours of UTC.  A run is short compared with the       *)
(* model's clock step (one day), so every clock read of one run sees the    *)
(* same instant; time passes between runs.  Invocations happen at 12:00 UTC *)
(* (and any number of them may happen within the same clock step).          *)
(***************************************************************************)
EXTENDS Integers, Sequences, FiniteSets, TLC

\* ------------------------------------------------------------------ bounds

\* Pages of one company whose offset the model tells apart; a later page is
\* kept as "this offset or more".
MaxPages == 4
\* Postings smartrecruiters_search has gathered that the model tells apart; more
\* are kept as "this many or more".
MaxGathered == 8
\* Number of entries of SMARTRECRUITERS_COMPANIES followed.
CompanyCount == 3
\* Most records one run accumulates in all_jobs.
MaxJobs == 2
\* Number of days the model follows after the first invocation.
MaxTicks == 2
\* Longest accumulated input of SpecDedupe.
MaxDedupeLen == 3

\* ------------------------------------------------ configuration (environment)

HoursPerDay == 24
HalfDay == HoursPerDay \div 2

\* JOB_DIGEST_MIN_SCORE (default).
MIN_SCORE == 70
\* JOB_DIGEST_MAX_EMAIL_ROLES, configured to 1 here (default 12).
MAX_EMAIL_ROLES == 1
\* JOB_DIGEST_SEEN_CACHE_DAYS, configured to 2 here (default 14).
SEEN_CACHE_DAYS == 2
\* JOB_DIGEST_RUN_WINDOW_MINUTES (default).
RUN_WINDOW_MINUTES == 20
\* JOB_DIGEST_GEMINI_MAX_JOBS (default).
GEMINI_MAX_JOBS == 20
\* UTC offset, in hours, of the host's own local timezone (datetime.now()).
HOST_UTC_OFFSET == 0

\* ------------------------------------------------------------ value universes

Links == {"", "a", "b"}
Roles == {"pm", "po"}
Locations == {"", "london", "paris"}
\* The scores of the records SpecDedupe starts from.
DedupeScores == {72, 88}
\* The scores score_fit gives the connectors' postings in the runs followed
\* (60 is below MIN_SCORE).
RunScores == {60, 80}
\* Raw fit_score values the re-score pass may answer with (clamped to 0..100).
GeminiAnswers == {50}

\* A part of RUN_AT.split(":"): text that int() accepts (num) or rejects.
NumPart(n) == [num |-> TRUE, val |-> n]
BadPart == [num |-> FALSE, val |-> 0]
\* RUN_AT as its ':'-separated parts; <<>> is the unset (empty) value.
RunAtUnset == <<>>
RunAtMidnight == <<NumPart(0), NumPart(0)>>
RunAtNoon == <<NumPart(12), NumPart(0)>>
RunAtNoon15 == <<NumPart(12), NumPart(15)>>
RunAtNoon20 == <<NumPart(12), NumPart(20)>>
RunAtNoon21 == <<NumPart(12), NumPart(21)>>
RunAt1145 == <<NumPart(11), NumPart(45)>>
RunAt1139 == <<NumPart(11), NumPart(39)>>
RunAtHour25 == <<NumPart(25), NumPart(0)>>
RunAtMinute75 == <<NumPart(12), NumPart(75)>>
RunAtWords == <<BadPart, NumPart(0)>>
RunAtOnePart == <<NumPart(12)>>
RunAtThreeParts == <<NumPart(12), NumPart(0), NumPart(0)>>
RunAtValues ==
    {RunAtUnset, RunAtMidnight, RunAtNoon, RunAtNoon15, RunAtNoon20, RunAtNoon21,
     RunAt1145, RunAt1139, RunAtHour25, RunAtMinute75, RunAtWords, RunAtOnePart,
     RunAtThreeParts}
\* UTC offsets, in hours, of the configured timezone JOB_DIGEST_TZ.
TzOffsets == {0, 12}

\* A connector's posting, with the verdicts of the title and recency gates.
RawPostings ==
    [role : {"pm"}, link : Links, location : Locations,
     relevant_title : BOOLEAN, within_window : BOOLEAN, score : RunScores]

\* The sources main collects, in its order: 1 LinkedIn, 2 Greenhouse, 3 Lever,
\* 4 SmartRecruiters, 5 Ashby, 6 the job boards.
\* What one request of a connector meets.
Responses == {"ok", "network_error", "non_200", "undecodable"}

\* No function is applied on its own.
NoCall == [fn |-> "none"]
NoResult == [raised |-> FALSE]
\* smartrecruiters_search is not running.
NoPaging == [company |-> 0, offset |-> 0, jobs |-> 0, requests |-> 0]
\* The absent last_run_date (no RunState file, or no such key).
NoDate == 0 - 1
\* A SeenCache timestamp: iso tells whether datetime.fromisoformat accepts it,
\* aware whether it carries a UTC offset, t is the hour it reads at that offset.
\* Stamp(t) is now_utc().isoformat() at hour t.
Stamp(t) == [iso |-> TRUE, aware |-> TRUE, offset |-> 0, t |-> t]
\* The instant a timestamp denotes, a naive one being read as UTC.
InstantOf(ts) == IF ts.aware THEN ts.t - ts.offset ELSE ts.t

VARIABLES
    RUN_AT,        \* configuration: JOB_DIGEST_RUN_AT, as parts
    tz_offset,     \* configuration: UTC offset of JOB_DIGEST_TZ
    zoneinfo_imported, \* environment: "from zoneinfo import ZoneInfo" succeeded
    clock,         \* now, in hours of UTC
    cache_file,    \* SEEN_CACHE_PATH: link -> timestamp
    state_file,    \* RUN_STATE_PATH: last_run_date, or NoDate
    pc,            \* position of main()
    src,           \* the source being collected
    all_jobs,      \* main: all_jobs
    records,       \* main: records
    seen_cache,    \* main: seen_cache
    top_records,   \* main: top_records
    email_sent,    \* main: email_sent
    sink_failed,   \* a sink (document store, export, email) failed in this run
    delivered_at,  \* history: link -> time of its last committed delivery
    undelivered,   \* history: links of the last assembled, undelivered digest
    committed_day, \* history: JOB_DIGEST_TZ date of the last RunState commit
    call,          \* a function applied on its own: its name and arguments
    result,        \* what that function returned
    paging         \* smartrecruiters_search: the locals of its pagination loop,
                   \* and the parity of the number of requests it has sent

config == <<RUN_AT, tz_offset, zoneinfo_imported>>
files == <<cache_file, state_file>>
locals == <<src, all_jobs, records, seen_cache, top_records, email_sent, sink_failed>>
history == <<delivered_at, undelivered, committed_day>>
unit == <<call, result, paging>>
vars == <<RUN_AT, tz_offset, zoneinfo_imported, clock, cache_file, state_file, pc, src, all_jobs,
          records, seen_cache, top_records, email_sent, sink_failed,
          delivered_at, undelivered, committed_day, call, result, paging>>

\* ------------------------------------------------------------------ helpers

Min(a, b) == IF a <= b THEN a ELSE b
Max(a, b) == IF a >= b THEN a ELSE b
Abs(a) == IF a >= 0 THEN a ELSE 0 - a
Range(s) == {s[i] : i \in 1..Len(s)}
LinksOf(s) == {s[i].link : i \in 1..Len(s)}
EmptyCache == [l \in {} |-> Stamp(0)]
SeqsUpTo(S, n) == UNION {[1..k -> S] : k \in 0..n}

\* now_utc()
now_utc == clock
\* The calendar date (a day number) and the hour of day at an offset from UTC.
LocalDate(t, offset) == (t + offset) \div HoursPerDay
LocalHour(t, offset) == (t + offset) % HoursPerDay

\* ------------------------------------------------------------------ RunGate

\* A gate whose window excludes the time exactly RUN_WINDOW_MINUTES from target.
should_run_now_strict ==
    IF RUN_AT = RunAtUnset THEN "true"
    ELSE IF ~zoneinfo_imported THEN "true"
    ELSE IF Len(RUN_AT) # 2 \/ ~RUN_AT[1].num \/ ~RUN_AT[2].num THEN "true"
    ELSE IF RUN_AT[1].val \notin 0..23 \/ RUN_AT[2].val \notin 0..59 THEN "raise"
    ELSE LET now_minutes == LocalHour(clock, tz_offset) * 60
             target_minutes == RUN_AT[1].val * 60 + RUN_AT[2].val
             delta_minutes == Abs(now_minutes - target_minutes)
         IN  IF delta_minutes >= RUN_WINDOW_MINUTES THEN "false"
             ELSE IF state_file = LocalDate(clock, tz_offset) THEN "false"
             ELSE "true"

\* should_run_now(): "true", "false", or "raise" when an exception leaves it.
should_run_now ==
    IF RUN_AT = RunAtUnset THEN "true"
    ELSE IF ~zoneinfo_imported THEN "true"
    ELSE IF Len(RUN_AT) # 2 \/ ~RUN_AT[1].num \/ ~RUN_AT[2].num THEN "true"
    ELSE IF RUN_AT[1].val \notin 0..23 \/ RUN_AT[2].val \notin 0..59 THEN "raise"
    ELSE LET now_minutes == LocalHour(clock, tz_offset) * 60
             target_minutes == RUN_AT[1].val * 60 + RUN_AT[2].val
             delta_minutes == Abs(now_minutes - target_minutes)
         IN  IF delta_minutes > RUN_WINDOW_MINUTES THEN "false"
             ELSE IF state_file = LocalDate(clock, tz_offset) THEN "false"
             ELSE "true"

\* ------------------------------------------------------------- Deduplicator

\* A sort that is descending but puts a later record before its equals.
RECURSIVE InsertByScoreUnstable(_, _)
InsertByScoreUnstable(sorted, r) ==
    IF sorted = <<>> THEN <<r>>
    ELSE IF Head(sorted).fit_score > r.fit_score
         THEN <<Head(sorted)>> \o InsertByScoreUnstable(Tail(sorted), r)
         ELSE <<r>> \o sorted

\* sorted(..., key=fit_score, reverse=True): stable, descending.
RECURSIVE InsertByScore(_, _)
InsertByScore(sorted, r) ==
    IF sorted = <<>> THEN <<r>>
    ELSE IF Head(sorted).fit_score >= r.fit_score
         THEN <<Head(sorted)>> \o InsertByScore(Tail(sorted), r)
         ELSE <<r>> \o sorted

\* A sort that is descending and reverses the order of records of equal score.
RECURSIVE SortByScoreReversingTies(_)
SortByScoreReversingTies(s) ==
    IF s = <<>> THEN <<>>
    ELSE InsertByScoreUnstable(SortByScoreReversingTies(SubSeq(s, 1, Len(s) - 1)), s[Len(s)])

RECURSIVE SortByScore(_)
SortByScore(s) ==
    IF s = <<>> THEN <<>>
    ELSE InsertByScore(SortByScore(SubSeq(s, 1, Len(s) - 1)), s[Len(s)])

\* for job in ...: if job.link not in unique: unique[job.link] = job
RECURSIVE KeepFirstPerLink(_, _)
KeepFirstPerLink(s, unique) ==
    IF s = <<>> THEN unique
    ELSE IF Head(s).link \in LinksOf(unique)
         THEN KeepFirstPerLink(Tail(s), unique)
         ELSE KeepFirstPerLink(Tail(s), Append(unique, Head(s)))

\* main, "Sort and dedupe by link": the records kept of the accumulated input.
Deduplicate(jobs) == KeepFirstPerLink(SortByScore(jobs), <<>>)

\* ------------------------------------------------------------------ SeenCache

\* load_seen_cache(SEEN_CACHE_PATH): the file's string-to-string entries.
load_seen_cache == cache_file

\* A prune that takes max_age_days for a number of hours.
prune_seen_cache_hours(seen, max_age_days) ==
    LET cutoff == now_utc - max_age_days
        kept == {l \in DOMAIN seen : seen[l].iso /\ InstantOf(seen[l]) >= cutoff}
    IN  [l \in kept |-> Stamp(InstantOf(seen[l]))]

\* A prune that drops the entry stamped exactly at the cutoff.
prune_seen_cache_strict(seen, max_age_days) ==
    LET cutoff == now_utc - max_age_days * HoursPerDay
        kept == {l \in DOMAIN seen : seen[l].iso /\ InstantOf(seen[l]) > cutoff}
    IN  [l \in kept |-> Stamp(InstantOf(seen[l]))]

\* prune_seen_cache(seen, max_age_days) at now_utc().
prune_seen_cache(seen, max_age_days) ==
    LET cutoff == now_utc - max_age_days * HoursPerDay
        kept == {l \in DOMAIN seen : seen[l].iso /\ InstantOf(seen[l]) >= cutoff}
    IN  [l \in kept |-> Stamp(InstantOf(seen[l]))]

\* A filter that looks every link up in the cache, the empty one too.
RECURSIVE filter_new_records_any_link(_, _)
filter_new_records_any_link(recs, seen) ==
    IF recs = <<>> THEN <<>>
    ELSE IF Head(recs).link \in DOMAIN seen THEN filter_new_records_any_link(Tail(recs), seen)
    ELSE <<Head(recs)>> \o filter_new_records_any_link(Tail(recs), seen)

RECURSIVE filter_new_records(_, _)
filter_new_records(recs, seen) ==
    IF recs = <<>> THEN <<>>
    ELSE IF Head(recs).link = "" THEN <<Head(recs)>> \o filter_new_records(Tail(recs), seen)
    ELSE IF Head(recs).link \in DOMAIN seen THEN filter_new_records(Tail(recs), seen)
    ELSE <<Head(recs)>> \o filter_new_records(Tail(recs), seen)

\* The cache main saves: seen_cache[record.link] = now for every non-empty link.
MarkSeen(seen, recs) ==
    LET marked == LinksOf(recs) \ {""}
    IN  [l \in DOMAIN seen \cup marked |-> IF l \in marked THEN Stamp(now_utc) ELSE seen[l]]

\* ------------------------------------------------------------ DigestAssembler

\* A top pick that is the last record of maximum fit_score.
select_last_top_pick(recs) ==
    IF recs = <<>> THEN <<>>
    ELSE LET best == CHOOSE i \in 1..Len(recs) :
                        /\ \A j \in 1..Len(recs) : recs[j].fit_score <= recs[i].fit_score
                        /\ \A j \in (i + 1)..Len(recs) : recs[j].fit_score < recs[i].fit_score
         IN  <<recs[best]>>

\* select_top_pick: max(records, key=fit_score), the first maximum; <<>> for None.
select_top_pick(recs) ==
    IF recs = <<>> THEN <<>>
    ELSE LET best == CHOOSE i \in 1..Len(recs) :
                        /\ \A j \in 1..Len(recs) : recs[j].fit_score <= recs[i].fit_score
                        /\ \A j \in 1..(i - 1) : recs[j].fit_score < recs[i].fit_score
         IN  <<recs[best]>>

\* The slice s[:n]: the first n elements, or all but the last -n when n < 0.
Truncate(s, n) ==
    IF n >= 0 THEN SubSeq(s, 1, Min(n, Len(s))) ELSE SubSeq(s, 1, Max(0, Len(s) + n))

\* main: top_records = records[:max_roles], the top pick forced in.
TopRecordsOf(recs, max_roles) ==
    LET top_pick == select_top_pick(recs)
        first == Truncate(recs, max_roles)
    IN  IF top_pick # <<>> /\ top_pick[1] \notin Range(first)
        THEN Truncate(top_pick \o first, max_roles)
        ELSE first

\* main: top_records, with the configured MAX_EMAIL_ROLES.
TopRecords(recs) == TopRecordsOf(recs, MAX_EMAIL_ROLES)

\* ------------------------------------------------------------------ re-score

GeminiReplies ==
    {[answered |-> FALSE, val |-> 0]} \cup {[answered |-> TRUE, val |-> v] : v \in GeminiAnswers}

\* enhance_records_with_gemini: the first GEMINI_MAX_JOBS records are re-scored
\* by the reply each gets (no reply: the record is left as it is).
enhance_records_with_gemini(recs, replies) ==
    [i \in 1..Len(recs) |->
        IF i <= Min(GEMINI_MAX_JOBS, Len(recs)) /\ replies[i].answered
        THEN [recs[i] EXCEPT !.fit_score = Max(0, Min(100, replies[i].val))]
        ELSE recs[i]]

\* ------------------------------------------------------------ SourceConnector

is_relevant_location(location) == location \in {"london", "united kingdom", "remote", "hybrid"}

\* What each connector does with a response: "jobs" (it returns postings),
\* "empty" (it returns none) or "raise" (an exception leaves it).
linkedin_search(resp) == IF resp = "ok" THEN "jobs" ELSE "empty"
greenhouse_search(resp) ==
    IF resp \in {"network_error", "non_200"} THEN "empty"
    ELSE IF resp = "undecodable" THEN "raise"
    ELSE "jobs"
lever_search(resp) == IF resp = "ok" THEN "jobs" ELSE "empty"
smartrecruiters_search(resp) == IF resp = "ok" THEN "jobs" ELSE "empty"
ashby_search(resp) == IF resp = "ok" THEN "jobs" ELSE "empty"
job_board_search(resp) == IF resp = "ok" THEN "jobs" ELSE "empty"

Connector(s, resp) ==
    CASE s = 1 -> linkedin_search(resp)
      [] s = 2 -> greenhouse_search(resp)
      [] s = 3 -> lever_search(resp)
      [] s = 4 -> smartrecruiters_search(resp)
      [] s = 5 -> ashby_search(resp)
      [] OTHER -> job_board_search(resp)

\* main's loop body for one posting of source s: the location it gates on.
GatedLocation(s, job) ==
    IF s \in {5, 6} /\ job.location = "" THEN "remote" ELSE job.location

\* main's loop body: whether the posting becomes a JobRecord.
Qualifies(s, job) ==
    /\ job.relevant_title
    /\ is_relevant_location(GatedLocation(s, job))
    /\ job.within_window
    /\ job.score >= MIN_SCORE

MakeRecord(job) == [role |-> job.role, link |-> job.link, fit_score |-> job.score]

\* ------------------------------------------------------------------ main()

\* Between two invocations: the last one returned, skipped or was left by an
\* exception.  A process's locals do not outlive it.
Resting == {"idle", "done", "skipped", "crashed"}

Exit(how) ==
    /\ pc' = how
    /\ src' = 1
    /\ all_jobs' = <<>>
    /\ records' = <<>>
    /\ seen_cache' = EmptyCache
    /\ top_records' = <<>>
    /\ email_sent' = FALSE
    /\ sink_failed' = FALSE

\* main: should_run_now() is true, the run goes on to the first connector.
GatePass ==
    /\ pc \in Resting
    /\ should_run_now = "true"
    /\ pc' = "fetch"
    /\ UNCHANGED <<config, unit, clock, files, locals, history>>

\* main: "Skipping run", return.
GateSkip ==
    /\ pc \in Resting
    /\ should_run_now = "false"
    /\ pc' = "skipped"
    /\ UNCHANGED <<config, unit, clock, files, locals, history>>

\* main: should_run_now() raises, nothing catches it.
GateRaise ==
    /\ pc \in Resting
    /\ should_run_now = "raise"
    /\ pc' = "crashed"
    /\ UNCHANGED <<config, unit, clock, files, locals, history>>

\* A pipeline that deduplicates as soon as the ATS connectors are done, with
\* the job boards still to be fetched.
AfterSourceEarly(s) ==
    IF s >= 5 THEN pc' = "dedupe" /\ src' = s ELSE pc' = "fetch" /\ src' = s + 1

\* After source s: the next connector, or the Deduplicator after the last one.
AfterSource(s) ==
    IF s = 6 THEN pc' = "dedupe" /\ src' = s ELSE pc' = "fetch" /\ src' = s + 1

\* <connector>_search(session) raises: main is left by the exception.
ConnectorRaises ==
    /\ pc = "fetch"
    /\ \E resp \in Responses : Connector(src, resp) = "raise"
    /\ Exit("crashed")
    /\ UNCHANGED <<config, unit, clock, files, history>>

\* <connector>_search(session) returns no posting (a failed request or none found).
ConnectorEmpty ==
    /\ pc = "fetch"
    /\ \E resp \in Responses : Connector(src, resp) = "empty"
    /\ AfterSource(src)
    /\ UNCHANGED <<config, unit, clock, files, all_jobs, records, seen_cache, top_records,
                   email_sent, sink_failed, history>>

\* <connector>_search(session) returns postings: main loops over them.
ConnectorReturns ==
    /\ pc = "fetch"
    /\ \E resp \in Responses : Connector(src, resp) = "jobs"
    /\ pc' = "loop"
    /\ UNCHANGED <<config, unit, clock, files, locals, history>>

\* One iteration of "for job in <source>_jobs": gate, score, all_jobs.append.
LoopStep ==
    /\ pc = "loop"
    /\ Len(all_jobs) < MaxJobs
    /\ \E job \in RawPostings :
          all_jobs' = IF Qualifies(src, job) THEN Append(all_jobs, MakeRecord(job))
                      ELSE all_jobs
    /\ UNCHANGED <<config, unit, clock, files, pc, src, records, seen_cache, top_records,
                   email_sent, sink_failed, history>>

\* The loop over the source's postings ends.
LoopDone ==
    /\ pc = "loop"
    /\ AfterSource(src)
    /\ UNCHANGED <<config, unit, clock, files, all_jobs, records, seen_cache, top_records,
                   email_sent, sink_failed, history>>

\* main: sort and dedupe by link, then order by fit score.
Dedupe ==
    /\ pc = "dedupe"
    /\ records' = SortByScore(Deduplicate(all_jobs))
    /\ pc' = "filter"
    /\ UNCHANGED <<config, unit, clock, files, src, all_jobs, seen_cache, top_records,
                   email_sent, sink_failed, history>>

\* main: remove roles already sent in previous digests.
FilterSeen ==
    /\ pc = "filter"
    /\ seen_cache' = prune_seen_cache(load_seen_cache, SEEN_CACHE_DAYS)
    /\ records' = SortByScore(filter_new_records(records, seen_cache'))
    /\ pc' = "enhance"
    /\ UNCHANGED <<config, unit, clock, files, src, all_jobs, top_records, email_sent,
                   sink_failed, history>>

\* main: optional re-score pass, then the final ordering.
Enhance ==
    /\ pc = "enhance"
    /\ \E replies \in [1..Len(records) -> GeminiReplies] :
          records' = SortByScore(enhance_records_with_gemini(records, replies))
    /\ pc' = "firestore"
    /\ UNCHANGED <<config, unit, clock, files, src, all_jobs, seen_cache, top_records,
                   email_sent, sink_failed, history>>

\* write_records_to_firestore(records): no client, every write done, or a
\* write raising (swallowed: "except Exception: continue").
Firestore ==
    /\ pc = "firestore"
    /\ \E outcome \in {"no_client", "written", "write_error"} :
          sink_failed' = (outcome = "write_error" /\ records # <<>>)
    /\ pc' = "export"
    /\ UNCHANGED <<config, unit, clock, files, src, all_jobs, records, seen_cache,
                   top_records, email_sent, history>>

\* main: df.to_excel / df.to_csv write the digest files.
Export ==
    /\ pc = "export"
    /\ pc' = "deliver"
    /\ UNCHANGED <<config, unit, clock, files, locals, history>>

\* main: df.to_excel / df.to_csv raises, nothing catches it.
ExportRaises ==
    /\ pc = "export"
    /\ Exit("crashed")
    /\ undelivered' = LinksOf(records)
    /\ UNCHANGED <<config, unit, clock, files, delivered_at, committed_day>>

\* main: build the capped digest and send_email(...).
Deliver ==
    /\ pc = "deliver"
    /\ top_records' = TopRecords(records)
    /\ \E outcome \in {"disabled", "not_configured", "smtp_error", "sent"} :
          /\ email_sent' = (outcome = "sent")
          /\ sink_failed' = (sink_failed \/ outcome = "smtp_error")
    /\ pc' = "commit"
    /\ UNCHANGED <<config, unit, clock, files, src, all_jobs, records, seen_cache, history>>

\* A run that saves the cache although the digest was not sent.
NoCommitButSave ==
    /\ pc = "commit"
    /\ ~email_sent
    /\ cache_file' = MarkSeen(seen_cache, records)
    /\ Exit("done")
    /\ undelivered' = LinksOf(records)
    /\ UNCHANGED <<config, unit, clock, state_file, delivered_at, committed_day>>

\* main: "if email_sent:" is false, nothing is saved.
NoCommit ==
    /\ pc = "commit"
    /\ ~email_sent
    /\ Exit("done")
    /\ undelivered' = LinksOf(records)
    /\ UNCHANGED <<config, unit, clock, files, delivered_at, committed_day>>

\* A commit that does not look at email_sent.
CommitUnguarded ==
    /\ pc = "commit"
    /\ cache_file' = MarkSeen(seen_cache, records)
    /\ state_file' = LocalDate(clock, HOST_UTC_OFFSET)
    /\ Exit("done")
    /\ UNCHANGED <<config, unit, clock, history>>

\* main: "if email_sent:" the cache and, with RUN_AT set, the run state are
\* saved; either save may fail with OSError, which is swallowed and leaves the
\* file as it was.
Commit ==
    /\ pc = "commit"
    /\ email_sent
    /\ \E cache_saved \in BOOLEAN :
          /\ cache_file' = IF cache_saved THEN MarkSeen(seen_cache, records)
                           ELSE cache_file
          /\ delivered_at' =
                IF cache_saved
                THEN [l \in DOMAIN delivered_at |->
                        IF l \in LinksOf(top_records) THEN now_utc ELSE delivered_at[l]]
                ELSE delivered_at
    /\ \E state_saved \in BOOLEAN :
          IF RUN_AT # RunAtUnset /\ state_saved
          THEN /\ state_file' = LocalDate(clock, HOST_UTC_OFFSET)
               /\ committed_day' = LocalDate(clock, tz_offset)
          ELSE UNCHANGED <<state_file, committed_day>>
    /\ Exit("done")
    /\ undelivered' = {}
    /\ UNCHANGED <<config, unit, clock>>

\* A day passes between two invocations.  (delivered_at keeps the deliveries
\* that are less than SEEN_CACHE_DAYS old.)
Tick ==
    /\ pc \in Resting
    /\ clock + HoursPerDay <= HalfDay + MaxTicks * HoursPerDay
    /\ clock' = clock + HoursPerDay
    /\ pc' = "idle"
    /\ delivered_at' =
          [l \in DOMAIN delivered_at |->
              IF clock' - delivered_at[l] < SEEN_CACHE_DAYS * HoursPerDay
              THEN delivered_at[l] ELSE NoDate]
    /\ UNCHANGED <<config, unit, files, locals, undelivered, committed_day>>

\* ------------------------------------------------------------ specifications

\* The configurations the pipeline's runs are followed under.
RunConfigs ==
    {<<RunAtUnset, 0>>, <<RunAtNoon, 0>>, <<RunAtMidnight, 12>>, <<RunAtHour25, 0>>}

InitRest ==
    /\ pc = "idle"
    /\ src = 1
    /\ all_jobs = <<>>
    /\ records = <<>>
    /\ seen_cache = EmptyCache
    /\ top_records = <<>>
    /\ email_sent = FALSE
    /\ sink_failed = FALSE
    /\ delivered_at = [l \in Links \ {""} |-> NoDate]
    /\ undelivered = {}
    /\ committed_day = NoDate
    /\ call = NoCall
    /\ result = NoResult
    /\ paging = NoPaging

Init ==
    /\ \E cfg \in RunConfigs : RUN_AT = cfg[1] /\ tz_offset = cfg[2]
    /\ zoneinfo_imported = TRUE
    /\ clock = HalfDay
    /\ cache_file = EmptyCache
    /\ state_file = NoDate
    /\ InitRest

Next ==
    \/ GatePass
    \/ GateSkip
    \/ GateRaise
    \/ ConnectorRaises
    \/ ConnectorEmpty
    \/ ConnectorReturns
    \/ LoopStep
    \/ LoopDone
    \/ Dedupe
    \/ FilterSeen
    \/ Enhance
    \/ Firestore
    \/ Export
    \/ ExportRaises
    \/ Deliver
    \/ NoCommit
    \/ Commit
    \/ Tick

Spec == Init /\ [][Next]_vars

\* The Deduplicator alone, on every accumulated input up to MaxDedupeLen records.
InitDedupe ==
    /\ RUN_AT = RunAtUnset
    /\ tz_offset = 0
    /\ zoneinfo_imported = TRUE
    /\ clock = HalfDay
    /\ cache_file = EmptyCache
    /\ state_file = NoDate
    /\ pc = "dedupe"
    /\ src = 6
    /\ all_jobs \in SeqsUpTo([role : Roles, link : Links, fit_score : DedupeScores],
                             MaxDedupeLen)
    /\ records = <<>>
    /\ seen_cache = EmptyCache
    /\ top_records = <<>>
    /\ email_sent = FALSE
    /\ sink_failed = FALSE
    /\ delivered_at = [l \in Links \ {""} |-> NoDate]
    /\ undelivered = {}
    /\ committed_day = NoDate
    /\ call = NoCall
    /\ result = NoResult
    /\ paging = NoPaging

SpecDedupe == InitDedupe /\ [][Dedupe]_vars

\* The RunGate alone, on every RUN_AT, timezone, day and RunState.
InitGate ==
    /\ RUN_AT \in RunAtValues
    /\ tz_offset \in TzOffsets
    /\ zoneinfo_imported \in BOOLEAN
    /\ clock \in {HalfDay + k * HoursPerDay : k \in 0..MaxTicks}
    /\ cache_file = EmptyCache
    /\ state_file \in {NoDate} \cup 0..(MaxTicks + 1)
    /\ InitRest

NextGate ==
    \/ GatePass
    \/ GateSkip
    \/ GateRaise

SpecGate == InitGate /\ [][NextGate]_vars

\* ----------------------------------------------------------- text matching

\* Words a posted_text is made of, and for each the search terms of
\* parse_posted_within_window that are substrings of it (lower-cased).
PostedWords ==
    {"just now", "Today", "yesterday", "minutes", "mins", "admin", "hours", "days",
     "weeks", "months", "ago"}
\* Words a title is made of.
TitleWords ==
    {"Product", "production", "Growth", "Manager", "management", "owner", "engineer",
     "senior", "vp"}
\* str.lower() of a word.
Lower(word) ==
    CASE word = "Today" -> "today"
      [] word = "Product" -> "product"
      [] word = "Growth" -> "growth"
      [] word = "Manager" -> "manager"
      [] OTHER -> word
TermsIn(word) ==
    CASE word = "just now" -> {"just now"}
      [] word = "today" -> {"today", "day"}
      [] word = "yesterday" -> {"yesterday", "day"}
      [] word = "minutes" -> {"minute", "min"}
      [] word \in {"mins", "admin"} -> {"min"}
      [] word = "hours" -> {"hour"}
      [] word = "days" -> {"day"}
      [] word = "weeks" -> {"week"}
      [] word \in {"product", "production"} -> {"product"}
      [] word \in {"growth", "manager", "management", "owner", "vp"} -> {word}
      [] OTHER -> {}

\* "term in text", on the lower-cased text.
Contains(text, term) == \E word \in text.words : term \in TermsIn(Lower(word))

\* ----------------------------------------------------------- RelevanceFilter

EXCLUDE_TITLE_TERMS == {"growth"}
ROLE_TITLE_REQUIREMENTS ==
    {"manager", "owner", "lead", "principal", "head", "director", "specialist",
     "strategy", "operations", "management", "vp"}

\* A title filter that has no excluded terms.
is_relevant_title_no_exclusion(title) ==
    /\ Contains(title, "product")
    /\ \E req \in ROLE_TITLE_REQUIREMENTS : Contains(title, req)

\* is_relevant_title(title)
is_relevant_title(title) ==
    IF ~Contains(title, "product") THEN FALSE
    ELSE IF \E term \in EXCLUDE_TITLE_TERMS : Contains(title, term) THEN FALSE
    ELSE IF ~\E req \in ROLE_TITLE_REQUIREMENTS : Contains(title, req) THEN FALSE
    ELSE TRUE

\* ------------------------------------------------------------- RecencyFilter

\* The first run of digits of a text, or NoNumber.
NoNumber == 0 - 1
PostedNumbers == {NoNumber, 0, 1, 2, 24, 25, 48, 49}
\* A posted_text: its first number and its words.
PostedTexts ==
    [number : PostedNumbers, words : {w \in SUBSET PostedWords : Cardinality(w) <= 2}]
\* A posted_date: empty; text no parser accepts; digits that fromtimestamp
\* rejects with ValueError or with OverflowError; or a date one of the parsers
\* reads, so many hours before now.
PostedDates ==
    [kind : {"empty", "unparseable", "digits_value_error", "digits_overflow"}, age : {0}]
    \cup [kind : {"instant"}, age : {0, 24, 25, 48, 49}]
WindowHours == {1, 24, 48, 168}

\* A window test that excludes the posting exactly window_hours hours old.
within_window_strict(posted_text, posted_date, window_hours) ==
    LET number == posted_text.number
        return(b) == [raised |-> FALSE, value |-> b]
    IN  IF Contains(posted_text, "just now") \/ Contains(posted_text, "today")
        THEN return(TRUE)
        ELSE IF Contains(posted_text, "yesterday") THEN return(window_hours >= 24)
        ELSE IF Contains(posted_text, "minute") \/ Contains(posted_text, "min")
        THEN return(TRUE)
        ELSE IF Contains(posted_text, "hour") /\ number # NoNumber
        THEN return(number < window_hours)
        ELSE IF Contains(posted_text, "day") /\ number # NoNumber
        THEN return(number * 24 <= window_hours)
        ELSE IF Contains(posted_text, "week") /\ number # NoNumber
        THEN return(number * 7 * 24 <= window_hours)
        ELSE CASE posted_date.kind = "empty" -> return(FALSE)
               [] posted_date.kind = "unparseable" -> return(FALSE)
               [] posted_date.kind = "digits_value_error" -> return(FALSE)
               [] posted_date.kind = "digits_overflow" -> [raised |-> TRUE]
               [] OTHER -> return(posted_date.age <= window_hours)

\* parse_posted_within_window(posted_text, posted_date, window_hours): what it
\* returns, or that an exception leaves it.
parse_posted_within_window(posted_text, posted_date, window_hours) ==
    LET number == posted_text.number
        return(b) == [raised |-> FALSE, value |-> b]
    IN  IF Contains(posted_text, "just now") \/ Contains(posted_text, "today")
        THEN return(TRUE)
        ELSE IF Contains(posted_text, "yesterday") THEN return(window_hours >= 24)
        ELSE IF Contains(posted_text, "minute") \/ Contains(posted_text, "min")
        THEN return(TRUE)
        ELSE IF Contains(posted_text, "hour") /\ number # NoNumber
        THEN return(number <= window_hours)
        ELSE IF Contains(posted_text, "day") /\ number # NoNumber
        THEN return(number * 24 <= window_hours)
        ELSE IF Contains(posted_text, "week") /\ number # NoNumber
        THEN return(number * 7 * 24 <= window_hours)
        ELSE CASE posted_date.kind = "empty" -> return(FALSE)
               [] posted_date.kind = "unparseable" -> return(FALSE)
               [] posted_date.kind = "digits_value_error" -> return(FALSE)
               [] posted_date.kind = "digits_overflow" -> [raised |-> TRUE]
               [] OTHER -> return(posted_date.age <= window_hours)

\* ------------------------------------------------------------------ FitScorer

\* Sizes of DOMAIN_TERMS and EXTRA_TERMS.
DomainTermCount == 24
ExtraTermCount == 11

\* A text as score_fit reads it: how many domain and extra terms it contains,
\* and whether it contains "onboarding" or "kyc" (both domain terms) and "api"
\* (an extra term).
ScoreTexts ==
    {t \in [domain : 0..DomainTermCount, extra : 0..ExtraTermCount,
            onboarding_or_kyc : BOOLEAN, api : BOOLEAN] :
        /\ t.onboarding_or_kyc => t.domain >= 1
        /\ t.domain = DomainTermCount => t.onboarding_or_kyc
        /\ t.api => t.extra >= 1
        /\ t.extra = ExtraTermCount => t.api}

\* A company name as score_fit reads it: the tier sets it matches.
ScoreCompanies == [vendor : BOOLEAN, fintech : BOOLEAN, bank : BOOLEAN, tech : BOOLEAN]

\* A scorer that adds the bonuses up and does not clamp the sum.
score_fit_unclamped(text, company) ==
    60 + 4 * text.domain + 2 * text.extra
       + (IF company.vendor THEN 12 ELSE 0) + (IF company.fintech THEN 8 ELSE 0)
       + (IF company.bank THEN 6 ELSE 0) + (IF company.tech THEN 4 ELSE 0)
       + (IF text.onboarding_or_kyc THEN 3 ELSE 0) + (IF text.api THEN 3 ELSE 0)

\* score_fit(text, company): the score it returns.
score_fit(text, company) ==
    LET base == 60
        domain_bonus == IF text.domain > 0 THEN Min(20, 4 * text.domain) ELSE 0
        extra_bonus == IF text.extra > 0 THEN Min(10, 2 * text.extra) ELSE 0
        vendor_bonus == IF company.vendor THEN 12 ELSE 0
        fintech_bonus == IF company.fintech THEN 8 ELSE 0
        bank_bonus == IF company.bank THEN 6 ELSE 0
        tech_bonus == IF company.tech THEN 4 ELSE 0
        kyc_bonus == IF text.onboarding_or_kyc THEN 3 ELSE 0
        api_bonus == IF text.api THEN 3 ELSE 0
        score == base + domain_bonus + extra_bonus + vendor_bonus + fintech_bonus
                 + bank_bonus + tech_bonus + kyc_bonus + api_bonus
    IN  Min(score, 90)

\* ------------------------------------------------- functions applied on their own

Returned(value) == [raised |-> FALSE, value |-> value]
Raised == [raised |-> TRUE]

\* What leaves a call besides call, result and pc: nothing.
ApplyFrame == UNCHANGED <<config, clock, files, locals, history, call, paging>>

ScoreFitCalls == [fn : {"score_fit"}, text : ScoreTexts, company : ScoreCompanies]

Apply_score_fit ==
    /\ pc = "call"
    /\ call.fn = "score_fit"
    /\ result' = Returned(score_fit(call.text, call.company))
    /\ pc' = "returned"
    /\ ApplyFrame

WithinWindowCalls ==
    [fn : {"parse_posted_within_window"}, posted_text : PostedTexts,
     posted_date : PostedDates, window_hours : WindowHours]

Apply_parse_posted_within_window ==
    /\ pc = "call"
    /\ call.fn = "parse_posted_within_window"
    /\ result' = parse_posted_within_window(call.posted_text, call.posted_date,
                                            call.window_hours)
    /\ pc' = "returned"
    /\ ApplyFrame

\* now_utc() when a function is applied on its own.
FunctionsNow == 20 * HoursPerDay
\* Ages, in hours, of the cache entries pruned: around 10, 11 and 14 days.
PruneAges ==
    {10 * HoursPerDay - 1, 10 * HoursPerDay, 10 * HoursPerDay + 1, 11 * HoursPerDay,
     14 * HoursPerDay, 14 * HoursPerDay + 1}
\* Timestamps of those ages: naive, in UTC, and at UTC+2; and one that is no
\* ISO-8601 text.
PruneStamps ==
    {[iso |-> FALSE, aware |-> FALSE, offset |-> 0, t |-> 0]}
    \cup {[iso |-> TRUE, aware |-> FALSE, offset |-> 0, t |-> FunctionsNow - age] :
             age \in PruneAges}
    \cup {[iso |-> TRUE, aware |-> TRUE, offset |-> off, t |-> FunctionsNow - age + off] :
             age \in PruneAges, off \in {0, 2}}
SeenCaches == UNION {[keys -> PruneStamps] : keys \in SUBSET (Links \ {""})}
PruneCalls == [fn : {"prune_seen_cache"}, seen : SeenCaches, max_age_days : {10, 14}]

Apply_prune_seen_cache ==
    /\ pc = "call"
    /\ call.fn = "prune_seen_cache"
    /\ result' = Returned(prune_seen_cache(call.seen, call.max_age_days))
    /\ pc' = "returned"
    /\ ApplyFrame

\* The records main holds when it builds the digest: ordered by fit_score,
\* highest first.
RankedRecords ==
    {recs \in SeqsUpTo([role : Roles, link : {"a", "b"}, fit_score : {70, 80}], 3) :
        SortByScore(recs) = recs}
\* Values of JOB_DIGEST_MAX_EMAIL_ROLES.
MaxRolesValues == {0 - 1, 0, 1, 2, 3}
TopRecordsCalls == [fn : {"top_records"}, records : RankedRecords, max_roles : MaxRolesValues]

Apply_top_records ==
    /\ pc = "call"
    /\ call.fn = "top_records"
    /\ result' = Returned(TopRecordsOf(call.records, call.max_roles))
    /\ pc' = "returned"
    /\ ApplyFrame

Titles == [words : {w \in SUBSET TitleWords : Cardinality(w) <= 3}]
TitleCalls == [fn : {"is_relevant_title"}, title : Titles]

Apply_is_relevant_title ==
    /\ pc = "call"
    /\ call.fn = "is_relevant_title"
    /\ result' = Returned(is_relevant_title(call.title))
    /\ pc' = "returned"
    /\ ApplyFrame

\* A URL: what stands before the first "?" and what stands after it.
EmptyUrl == [base |-> "", query |-> ""]
Urls == {EmptyUrl} \cup [base : {"x/1", "x/2"}, query : {"", "ref=a", "ref=b"}]
\* clean_link(url): url.split("?")[0] if url else url
clean_link(url) == IF url = EmptyUrl THEN url ELSE [base |-> url.base, query |-> ""]

\* The connectors that pass a posting's URL through clean_link; of the job
\* boards, Indeed does (as do RSS, eFinancialCareers, Technojobs and Built In)
\* and Remotive does not (nor do RemoteOK, Jobicy, MeetFrank, Adzuna, Jooble,
\* Reed, CV-Library, JobServe and the HTML boards).
Fetchers ==
    {"linkedin", "greenhouse", "lever", "smartrecruiters", "ashby", "remotive", "indeed"}
CleansLink(fetcher) == fetcher \in {"linkedin", "indeed"}
\* The "link" a connector gives the posting found at url.
ConnectorLink(fetcher, url) == IF CleansLink(fetcher) THEN clean_link(url) ELSE url

\* Two postings collected in one run, as main accumulates and deduplicates them.
FetchedPostings == [fetcher : Fetchers, url : Urls, role : {"pm"}, score : {70, 80}]
CollectCalls == [fn : {"collect"}, first : FetchedPostings, second : FetchedPostings]
Collected(posting) ==
    [role |-> posting.role, link |-> ConnectorLink(posting.fetcher, posting.url),
     fit_score |-> posting.score]

Apply_collect ==
    /\ pc = "call"
    /\ call.fn = "collect"
    /\ result' = Returned(SortByScore(Deduplicate(
                      <<Collected(call.first), Collected(call.second)>>)))
    /\ pc' = "returned"
    /\ ApplyFrame

\* A JSON value of a state file's object: a string, or something else
\* (a number, null, a list).
JsonValues == [str : {TRUE}, text : {"x", "y"}] \cup [str : {FALSE}, text : {""}]
\* What is at the path of a state file: nothing; a file that cannot be read;
\* bytes that are not UTF-8; text that is not JSON; JSON that is no object;
\* or a JSON object.
StateFiles ==
    [kind : {"missing", "unreadable", "undecodable", "malformed", "not_object"},
     entries : {<<>>}]
    \cup [kind : {"object"},
          entries : UNION {[keys -> JsonValues] : keys \in SUBSET {"a", "last_run_date"}}]

\* load_seen_cache(path) and load_run_state(path), which have the same body:
\* the mapping returned, or that an exception leaves it.
load_json_mapping(file) ==
    CASE file.kind = "missing" -> Returned(<<>>)
      [] file.kind = "unreadable" -> Returned(<<>>)
      [] file.kind = "undecodable" -> Raised
      [] file.kind = "malformed" -> Returned(<<>>)
      [] file.kind = "not_object" -> Returned(<<>>)
      [] OTHER ->
          Returned([k \in {key \in DOMAIN file.entries : file.entries[key].str}
                      |-> file.entries[k]])
load_seen_cache_at(file) == load_json_mapping(file)
load_run_state_at(file) == load_json_mapping(file)

LoadCalls == [fn : {"load_seen_cache", "load_run_state"}, file : StateFiles]

Apply_load_seen_cache ==
    /\ pc = "call"
    /\ call.fn = "load_seen_cache"
    /\ result' = load_seen_cache_at(call.file)
    /\ pc' = "returned"
    /\ ApplyFrame

Apply_load_run_state ==
    /\ pc = "call"
    /\ call.fn = "load_run_state"
    /\ result' = load_run_state_at(call.file)
    /\ pc' = "returned"
    /\ ApplyFrame

\* A serializer that writes each timestamp as a number, not as a string.
json_dumps_epoch(seen) ==
    [kind |-> "object", entries |-> [l \in DOMAIN seen |-> [str |-> FALSE, text |-> ""]]]

\* json.dumps(seen, indent=2) of a str-to-str dict: the text of a JSON object
\* whose values are JSON strings.
json_dumps(seen) ==
    [kind |-> "object", entries |-> [l \in DOMAIN seen |-> [str |-> TRUE, text |-> seen[l]]]]

\* What path.write_text meets: it writes; open() fails and the file stays as it
\* was; or the write fails after open() has truncated the file.
WriteOutcomes == {"written", "open_error", "write_error"}
\* save_seen_cache(path, seen): what is at the path afterwards (OSError is
\* swallowed).
save_seen_cache(file, seen, outcome) ==
    CASE outcome = "written" -> json_dumps(seen)
      [] outcome = "open_error" -> file
      [] OTHER -> [kind |-> "malformed", entries |-> <<>>]

\* The str-to-str dict a loaded mapping is: each JSON string as its text.
StringsOf(mapping) == [k \in DOMAIN mapping |-> mapping[k].text]

\* Ages, in hours, of the entries of a cache main saves: stamped in this run,
\* a day ago, and SEEN_CACHE_DAYS (default 14) days ago.
SavedAges == {0, HoursPerDay, 14 * HoursPerDay}
\* The caches main saves: every timestamp is now_utc().isoformat() of this run
\* or dt.isoformat() of prune_seen_cache, both in UTC.
SavedCaches ==
    UNION {[keys -> {Stamp(FunctionsNow - age) : age \in SavedAges}] :
              keys \in SUBSET (Links \ {""})}
\* What was at the path before the save.
FilesBefore ==
    {[kind |-> "missing", entries |-> <<>>],
     json_dumps([l \in {"a"} |-> Stamp(FunctionsNow - HoursPerDay)])}
\* Retentions larger than the one the cache was saved under.
LargeMaxAges == {15, 36500}
RoundTripCalls ==
    [fn : {"save_then_load"}, seen : SavedCaches, file : FilesBefore,
     outcome : WriteOutcomes, max_age_days : LargeMaxAges]

\* save_seen_cache(path, seen) followed by load_seen_cache(path).
Apply_save_then_load ==
    /\ pc = "call"
    /\ call.fn = "save_then_load"
    /\ result' = load_seen_cache_at(save_seen_cache(call.file, call.seen, call.outcome))
    /\ pc' = "returned"
    /\ ApplyFrame

\* The records that leave the SeenCache filter: one record per link, ordered by
\* fit_score, highest first.
FilteredRecords ==
    {recs \in SeqsUpTo([role : {"pm"}, link : Links, fit_score : {70, 80}], 3) :
        /\ SortByScore(recs) = recs
        /\ \A i, j \in 1..Len(recs) : i # j => recs[i].link # recs[j].link}
\* What the re-score pass gets for a record: no usable answer, or a fit_score.
RescoreReplies ==
    {[answered |-> FALSE, val |-> 0]} \cup {[answered |-> TRUE, val |-> v] : v \in {70, 80, 120}}

\* A main that does not sort again after the re-score pass.
EnhancedUnsorted(recs, replies) == enhance_records_with_gemini(recs, replies)

\* main, "Optional Gemini enhancement": the re-score pass and the sort after it.
EnhancedAndSorted(recs, replies) == SortByScore(enhance_records_with_gemini(recs, replies))

RankCalls ==
    [fn : {"rank"}, records : FilteredRecords, replies : [1..3 -> RescoreReplies],
     max_roles : MaxRolesValues]

\* main from the re-score pass to the digest: the records handed to the
\* document store and the export, and the capped sequence handed to the email.
Apply_rank ==
    /\ pc = "call"
    /\ call.fn = "rank"
    /\ LET ranked == EnhancedAndSorted(call.records, call.replies)
       IN  result' = Returned([records |-> ranked,
                               top_records |-> TopRecordsOf(ranked, call.max_roles)])
    /\ pc' = "returned"
    /\ ApplyFrame

\* The records filter_new_records is given, and the caches: any keys, the
\* empty link among them.
FilterRecords == SeqsUpTo([role : {"pm"}, link : Links, fit_score : {70, 80}], 3)
FilterCaches == UNION {[keys -> {Stamp(FunctionsNow)}] : keys \in SUBSET Links}
FilterCalls == [fn : {"filter_new_records"}, records : FilterRecords, seen : FilterCaches]

Apply_filter_new_records ==
    /\ pc = "call"
    /\ call.fn = "filter_new_records"
    /\ result' = Returned(filter_new_records(call.records, call.seen))
    /\ pc' = "returned"
    /\ ApplyFrame

\* Ages, in hours, of the entries of the cache file a run starts from: around
\* SEEN_CACHE_DAYS days.
RetentionAges ==
    {0, HoursPerDay, SEEN_CACHE_DAYS * HoursPerDay, SEEN_CACHE_DAYS * HoursPerDay + 1}
\* Their timestamps: as main writes them (UTC), naive, and one that is no
\* ISO-8601 text.
RetentionStamps ==
    {[iso |-> FALSE, aware |-> FALSE, offset |-> 0, t |-> 0]}
    \cup {[iso |-> TRUE, aware |-> aware, offset |-> 0, t |-> FunctionsNow - age] :
             aware \in BOOLEAN, age \in RetentionAges}
RetentionCaches == UNION {[keys -> RetentionStamps] : keys \in SUBSET (Links \ {""})}

\* A run that stamps every deduplicated record, the already seen ones too.
CommittedCacheRefreshing(file_cache, recs) ==
    MarkSeen(prune_seen_cache(file_cache, SEEN_CACHE_DAYS), recs)

\* main, from the SeenCache filter to the commit of a run whose email was sent:
\* the cache handed to save_seen_cache, given the file's entries and the
\* deduplicated records (the re-score pass and the sorts keep every link).
CommittedCache(file_cache, recs) ==
    LET seen == prune_seen_cache(file_cache, SEEN_CACHE_DAYS)
    IN  MarkSeen(seen, filter_new_records(recs, seen))

\* The deduplicated records have the shape of FilteredRecords: one per link.
CommitCalls == [fn : {"commit"}, cache : RetentionCaches, records : FilteredRecords]

Apply_commit ==
    /\ pc = "call"
    /\ call.fn = "commit"
    /\ result' = Returned(CommittedCache(call.cache, call.records))
    /\ pc' = "returned"
    /\ ApplyFrame

\* The body of main's loop over the postings of source s, for one posting:
\* whether the posting becomes a JobRecord.
LoopBodyCalls == [fn : {"loop_body"}, source : 1..6, job : RawPostings]

Apply_loop_body ==
    /\ pc = "call"
    /\ call.fn = "loop_body"
    /\ result' = Returned(Qualifies(call.source, call.job))
    /\ pc' = "returned"
    /\ ApplyFrame

Calls ==
    ScoreFitCalls \cup WithinWindowCalls \cup PruneCalls \cup TopRecordsCalls
    \cup TitleCalls \cup LoopBodyCalls \cup LoadCalls \cup CollectCalls
    \cup RoundTripCalls \cup RankCalls \cup FilterCalls
    \cup CommitCalls

InitFunctions ==
    /\ RUN_AT = RunAtUnset
    /\ tz_offset = 0
    /\ zoneinfo_imported = TRUE
    /\ clock = FunctionsNow
    /\ cache_file = EmptyCache
    /\ state_file = NoDate
    /\ pc = "call"
    /\ src = 1
    /\ all_jobs = <<>>
    /\ records = <<>>
    /\ seen_cache = EmptyCache
    /\ top_records = <<>>
    /\ email_sent = FALSE
    /\ sink_failed = FALSE
    /\ delivered_at = [l \in Links \ {""} |-> NoDate]
    /\ undelivered = {}
    /\ committed_day = NoDate
    /\ call \in Calls
    /\ result = NoResult
    /\ paging = NoPaging

NextFunctions ==
    \/ Apply_score_fit
    \/ Apply_parse_posted_within_window
    \/ Apply_prune_seen_cache
    \/ Apply_top_records
    \/ Apply_is_relevant_title
    \/ Apply_loop_body
    \/ Apply_load_seen_cache
    \/ Apply_load_run_state
    \/ Apply_collect
    \/ Apply_save_then_load
    \/ Apply_rank
    \/ Apply_filter_new_records
    \/ Apply_commit

SpecFunctions == InitFunctions /\ [][NextFunctions]_vars

\* ------------------------------------------- SmartRecruiters pagination loop

\* smartrecruiters_search: limit
limit == 100
\* The largest offset told apart.
MaxOffset == MaxPages * limit

\* data.get("totalFound") of a response, for the loop at the given offset: no
\* integer, or an integer below, at, or above the next offset.
TotalsFound(offset) ==
    {[int |-> FALSE, val |-> 0]}
    \cup {[int |-> TRUE, val |-> v] : v \in {0, offset + limit, offset + limit + 1}}

\* session.get(...) has been called once more.
Requested == (paging.requests + 1) % 2

\* The loop leaves a company: the next one, or return jobs after the last.
NextCompany(gathered) ==
    IF paging.company = CompanyCount
    THEN /\ pc' = "sr_returned"
         /\ paging' = [paging EXCEPT !.jobs = gathered, !.requests = Requested]
    ELSE /\ pc' = "sr_page"
         /\ paging' = [company |-> paging.company + 1, offset |-> 0, jobs |-> gathered,
                       requests |-> Requested]

PagingFrame == UNCHANGED <<config, clock, files, locals, history, call, result>>

\* One iteration that breaks before any posting is read: the request raises
\* RequestException, the status is not 200, the body is not JSON, or content
\* is empty or missing.
PageBreaks ==
    /\ pc = "sr_page"
    /\ \E outcome \in {"request_error", "non_200", "undecodable", "empty_content"} :
          NextCompany(paging.jobs)
    /\ PagingFrame

\* One iteration whose body is JSON and no object: data.get raises
\* AttributeError, which leaves smartrecruiters_search.
PageRaises ==
    /\ pc = "sr_page"
    /\ pc' = "sr_raised"
    /\ paging' = [paging EXCEPT !.requests = Requested]
    /\ PagingFrame

\* One iteration that reads a page of postings (titled of them have a name)
\* and then breaks: totalFound is no integer, or the next offset reaches it.
PageLast ==
    /\ pc = "sr_page"
    /\ \E titled \in 0..2, total_found \in TotalsFound(paging.offset) :
          /\ ~total_found.int \/ paging.offset + limit >= total_found.val
          /\ NextCompany(Min(paging.jobs + titled, MaxGathered))
    /\ PagingFrame

\* One iteration that reads a page of postings and goes on to the next page:
\* totalFound is an integer above the next offset.
PageMore ==
    /\ pc = "sr_page"
    /\ \E titled \in 0..2, total_found \in TotalsFound(paging.offset) :
          /\ total_found.int
          /\ paging.offset + limit < total_found.val
          /\ paging' = [paging EXCEPT !.offset = Min(paging.offset + limit, MaxOffset),
                                      !.jobs = Min(paging.jobs + titled, MaxGathered),
                                      !.requests = Requested]
    /\ pc' = "sr_page"
    /\ PagingFrame

InitPaging ==
    /\ RUN_AT = RunAtUnset
    /\ tz_offset = 0
    /\ zoneinfo_imported = TRUE
    /\ clock = HalfDay
    /\ cache_file = EmptyCache
    /\ state_file = NoDate
    /\ pc = "sr_page"
    /\ src = 4
    /\ all_jobs = <<>>
    /\ records = <<>>
    /\ seen_cache = EmptyCache
    /\ top_records = <<>>
    /\ email_sent = FALSE
    /\ sink_failed = FALSE
    /\ delivered_at = [l \in Links \ {""} |-> NoDate]
    /\ undelivered = {}
    /\ committed_day = NoDate
    /\ call = NoCall
    /\ result = NoResult
    /\ paging = [company |-> 1, offset |-> 0, jobs |-> 0, requests |-> 0]

NextPaging ==
    \/ PageBreaks
    \/ PageRaises
    \/ PageLast
    \/ PageMore

\* The function runs on: whenever an iteration can be taken, one is.
SpecPaging == InitPaging /\ [][NextPaging]_vars /\ WF_vars(NextPaging)

\* ------------------------------------------------------------------ claims

\* The stages of main after the SeenCache filter, where records is the run's
\* digest material.
AfterFilter == {"enhance", "firestore", "export", "deliver", "commit"}

\* C1: a step of main changes the SeenCache file only if send_email returned
\* True in this run, and changes the RunState file only if send_email returned
\* True and RUN_AT is configured; every other step leaves both files as they were.
C1_CommitOnlyAfterDelivery ==
    [][/\ (cache_file' # cache_file => pc = "commit" /\ email_sent)
       /\ (state_file' # state_file =>
              pc = "commit" /\ email_sent /\ RUN_AT # RunAtUnset)]_vars

\* C1, the case: a run has delivered and written both files.
C1_Witness ==
    /\ pc = "done"
    /\ RUN_AT # RunAtUnset
    /\ cache_file # EmptyCache
    /\ state_file # NoDate

C3_AtLeastOnceOnFailure ==
    pc \in AfterFilter =>
        \A l \in undelivered : l \in LinksOf(all_jobs) => l \in LinksOf(records)

\* C3, the case: a non-empty link of an undelivered digest is collected again
\* and the run is past the SeenCache filter.
C3_Witness ==
    /\ pc = "enhance"
    /\ \E l \in undelivered \ {""} : l \in LinksOf(all_jobs)

\* C4: every link a run adds to the SeenCache file, or stamps anew in it, is
\* the link of a record of the capped digest handed to send_email in that run.
C4_CommittedLinksWereDelivered ==
    [][\A l \in Links \ {""} :
          (/\ l \in DOMAIN cache_file'
           /\ (l \notin DOMAIN cache_file \/ cache_file'[l] # cache_file[l]))
          => l \in LinksOf(top_records)]_vars

\* C5: with RUN_AT configured, once a run has committed RunState, every
\* evaluation of should_run_now on the same JOB_DIGEST_TZ calendar date is false.
C5_OncePerConfiguredDay ==
    (/\ RUN_AT # RunAtUnset
     /\ committed_day # NoDate
     /\ committed_day = LocalDate(clock, tz_offset))
    => should_run_now = "false"

\* The indexes of the accumulated input that carry link l, and among them the
\* first one of maximum fit_score.
Carrying(l) == {k \in 1..Len(all_jobs) : all_jobs[k].link = l}
FirstBest(l) ==
    CHOOSE k \in Carrying(l) :
        /\ \A j \in Carrying(l) : all_jobs[j].fit_score <= all_jobs[k].fit_score
        /\ \A j \in Carrying(l) :
              j < k => all_jobs[j].fit_score < all_jobs[k].fit_score

\* C6: the Deduplicator's output holds exactly one record per non-empty link
\* of its input, and that record is the first input record of maximum
\* fit_score among those carrying the link.
C6_DedupeKeepsFirstBest ==
    pc = "filter" =>
        \A l \in LinksOf(all_jobs) \ {""} :
            /\ Cardinality({i \in 1..Len(records) : records[i].link = l}) = 1
            /\ \A i \in 1..Len(records) :
                  records[i].link = l => records[i] = all_jobs[FirstBest(l)]

\* C6, the case: the input held two different records of one non-empty link
\* and of equal fit_score, and the Deduplicator has run.
C6_Witness ==
    /\ pc = "filter"
    /\ \E j, k \in 1..Len(all_jobs) :
          /\ j < k
          /\ all_jobs[j].link # ""
          /\ all_jobs[j].link = all_jobs[k].link
          /\ all_jobs[j].fit_score = all_jobs[k].fit_score
          /\ all_jobs[j] # all_jobs[k]

\* C7: every input record whose link is empty is in the Deduplicator's output.
C7_EmptyLinkAlwaysKept ==
    pc = "filter" =>
        \A k \in 1..Len(all_jobs) :
            all_jobs[k].link = "" => all_jobs[k] \in Range(records)

\* C8: no connector call ends with an exception leaving main: after every
\* connector call the run goes on.
C8_ConnectorsNeverRaise ==
    [][pc = "fetch" => pc' # "crashed"]_vars

\* A RUN_AT value that is configured and is not a valid HH:MM time of day.
InvalidRunAt ==
    /\ RUN_AT # RunAtUnset
    /\ \/ Len(RUN_AT) # 2
       \/ \E i \in 1..Len(RUN_AT) : ~RUN_AT[i].num
       \/ RUN_AT[1].val \notin 0..23
       \/ RUN_AT[2].val \notin 0..59

\* C9: for every configured RUN_AT that is not a valid HH:MM time of day,
\* should_run_now returns true without raising: once main has evaluated the
\* gate it is at the first connector, neither skipped nor left by an exception.
C9_GateFailsOpen ==
    (InvalidRunAt /\ pc \in {"fetch", "skipped", "crashed"}) => pc = "fetch"

\* C10: in a run where a sink failed (a document-store write, the export or
\* the email send), no step changes the SeenCache file or the RunState file.
C10_SinkFailureSuppressesCommit ==
    [][sink_failed => cache_file' = cache_file /\ state_file' = state_file]_vars

\* A RUN_AT value that is a valid HH:MM time of day.
ValidRunAt == RUN_AT # RunAtUnset /\ ~InvalidRunAt

\* The absolute difference, in minutes, between the local time of day in
\* JOB_DIGEST_TZ and today's target time.
MinutesFromTarget ==
    Abs(LocalHour(clock, tz_offset) * 60 - (RUN_AT[1].val * 60 + RUN_AT[2].val))

C12_ScoreBounded ==
    (pc = "returned" /\ call.fn = "score_fit") =>
        (result.value >= 60 /\ result.value <= 90)

\* C12, the case: a company of all four tiers and a text with every bonus
\* has been scored, and the score is 90.
C12_Witness ==
    /\ pc = "returned"
    /\ call.fn = "score_fit"
    /\ call.company = [vendor |-> TRUE, fintech |-> TRUE, bank |-> TRUE, tech |-> TRUE]
    /\ call.text.domain >= 5
    /\ call.text.api
    /\ result.value = 90

\* A posted_text of the form "<N> hours ago".
HoursAgo(text) == text.number # NoNumber /\ text.words = {"hours", "ago"}

\* C13: for a posted_text "<N> hours ago", parse_posted_within_window returns
\* true if and only if N <= window_hours, whatever posted_date is.
C13_HoursAgoWithinWindow ==
    (/\ pc = "returned"
     /\ call.fn = "parse_posted_within_window"
     /\ HoursAgo(call.posted_text))
    => result = Returned(call.posted_text.number <= call.window_hours)

\* C13, the case: N = window_hours + 1 with a posted_date of this instant:
\* the text decides, the answer is false.
C13_Witness ==
    /\ pc = "returned"
    /\ call.fn = "parse_posted_within_window"
    /\ HoursAgo(call.posted_text)
    /\ call.posted_text.number = call.window_hours + 1
    /\ call.posted_date = [kind |-> "instant", age |-> 0]
    /\ result = Returned(FALSE)

\* C14: when posted_text has no "just now", "today" or "yesterday" and no
\* number together with a unit (minute, hour, day, week), and posted_date is
\* empty or unparseable, parse_posted_within_window returns false.
C14_UnknownAgeIsStale ==
    (/\ pc = "returned"
     /\ call.fn = "parse_posted_within_window"
     /\ \A term \in {"just now", "today", "yesterday"} : ~Contains(call.posted_text, term)
     /\ ~(/\ call.posted_text.number # NoNumber
          /\ \E u \in {"minute", "hour", "day", "week"} :
                Contains(call.posted_text, u))
     /\ call.posted_date.kind \in {"empty", "unparseable"})
    => result = Returned(FALSE)

\* C15: prune_seen_cache keeps exactly the entries whose timestamp is ISO-8601
\* and denotes, a naive one being read as UTC, an instant at most max_age_days
\* before now_utc; a kept entry still denotes the same instant.
C15_PruneKeepsExactlyFresh ==
    (pc = "returned" /\ call.fn = "prune_seen_cache") =>
        /\ DOMAIN result.value =
              {l \in DOMAIN call.seen :
                  /\ call.seen[l].iso
                  /\ now_utc - InstantOf(call.seen[l])
                        <= call.max_age_days * HoursPerDay}
        /\ \A l \in DOMAIN result.value :
              InstantOf(result.value[l]) = InstantOf(call.seen[l])

\* C15, the case: one naive entry 11 days old and one at UTC+2 exactly 14
\* days old survive a 14-day retention.
C15_Witness ==
    /\ pc = "returned"
    /\ call.fn = "prune_seen_cache"
    /\ call.max_age_days = 14
    /\ \E l, m \in DOMAIN result.value :
          /\ ~call.seen[l].aware
          /\ now_utc - InstantOf(call.seen[l]) = 11 * HoursPerDay
          /\ call.seen[m].offset = 2
          /\ now_utc - InstantOf(call.seen[m]) = 14 * HoursPerDay

\* The first record of maximum fit_score of a non-empty sequence.
FirstMax(recs) ==
    LET i == CHOOSE k \in 1..Len(recs) :
                /\ \A j \in 1..Len(recs) : recs[j].fit_score <= recs[k].fit_score
                /\ \A j \in 1..(k - 1) : recs[j].fit_score < recs[k].fit_score
    IN  recs[i]

C17_TitleNeedsAllThree ==
    (pc = "returned" /\ call.fn = "is_relevant_title") =>
        LET has_product == \E word \in call.title.words : Lower(word) \in {"product", "production"}
            has_excluded == \E word \in call.title.words : Lower(word) = "growth"
            has_role ==
                \E word \in call.title.words :
                    Lower(word) \in {"manager", "management", "owner", "vp"}
        IN  /\ result.value = (has_product /\ ~has_excluded /\ has_role)
            /\ ~has_product => result.value = FALSE
            /\ has_excluded => result.value = FALSE

\* C17, the case: a title with "Product", "Manager" and "Growth" has been
\* rejected.
C17_Witness ==
    /\ pc = "returned"
    /\ call.fn = "is_relevant_title"
    /\ call.title.words = {"Product", "Manager", "Growth"}
    /\ result.value = FALSE

\* C18: for every source, a posting whose connector supplied an empty
\* location does not pass the location gate and does not become a JobRecord.
C18_EmptyLocationRejected ==
    (pc = "returned" /\ call.fn = "loop_body" /\ call.job.location = "")
    => result.value = FALSE

\* C19: for every content of the SeenCache and RunState files, load_seen_cache
\* and load_run_state return a string-to-string mapping and do not raise.
C19_CorruptStateNeverFatal ==
    (pc = "returned" /\ call.fn \in {"load_seen_cache", "load_run_state"}) =>
        /\ ~result.raised
        /\ \A k \in DOMAIN result.value : result.value[k].str

\* C20: of two postings collected in one run whose URLs differ only in their
\* query string, whichever connectors produced them, at most one is among the
\* deduplicated records, and it has the higher score of the two.
C20_QueryStringIgnored ==
    (/\ pc = "returned"
     /\ call.fn = "collect"
     /\ call.first.url.base = call.second.url.base
     /\ call.first.url.query # call.second.url.query)
    => /\ Len(result.value) = 1
       /\ result.value[1].fit_score = Max(call.first.score, call.second.score)

\* C21: the Deduplicator (sort by score, keep the first record per link)
\* applied to its own output yields the same records: the same set, and in
\* the same order; the records main then holds are that output.
C21_DedupeIdempotent ==
    pc = "filter" =>
        LET out == Deduplicate(all_jobs)
        IN  /\ Range(Deduplicate(out)) = Range(out)
            /\ Deduplicate(out) = out
            /\ records = out
            /\ Range(Deduplicate(records)) = Range(records)

\* C21, the case: the Deduplicator dropped a record and kept two of equal
\* fit_score.
C21_Witness ==
    /\ pc = "filter"
    /\ Len(records) < Len(all_jobs)
    /\ Len(records) = 2
    /\ records[1].fit_score = records[2].fit_score

LastSource == 6

\* C23: within a run the sources are collected one after another from the
\* first to the last, the Deduplicator starts only when the last source has
\* been fetched and accumulated, and from then on all_jobs does not change:
\* records and seen_cache are computed only by the stages after collection.
C23_StagesAfterCollection ==
    [][/\ (pc' = "dedupe" /\ pc # "dedupe") => (pc \in {"fetch", "loop"} /\ src = LastSource)
       /\ (pc' = "fetch" /\ pc \in Resting) => src' = 1
       /\ (pc' = "fetch" /\ pc \notin Resting) =>
             (pc \in {"fetch", "loop"} /\ src < LastSource /\ src' = src + 1)
       /\ (all_jobs' # all_jobs /\ pc' \notin Resting) => pc = "loop"
       /\ (records' # records /\ pc' \notin Resting) => pc \in {"dedupe", "filter", "enhance"}
       /\ (seen_cache' # seen_cache /\ pc' \notin Resting) => pc = "filter"
       /\ pc \in {"dedupe", "filter"} => (src = LastSource /\ all_jobs' = all_jobs)]_vars

\* C23, the case: two records were accumulated, the last source has been
\* collected, and the Deduplicator and the SeenCache filter have run.
C23_Witness ==
    /\ pc = "enhance"
    /\ src = LastSource
    /\ Len(all_jobs) = 2
    /\ Len(records) = 2

\* A sequence of records is ordered by non-increasing fit_score.
NonIncreasing(recs) ==
    \A i, j \in 1..Len(recs) : i < j => recs[i].fit_score >= recs[j].fit_score
\* The place a link has in a sequence of records of distinct links.
PlaceOf(recs, link) == CHOOSE i \in 1..Len(recs) : recs[i].link = link
\* Records of equal fit_score are in the order their links have in original.
TiesInOrderOf(recs, original) ==
    \A i, j \in 1..Len(recs) :
        (i < j /\ recs[i].fit_score = recs[j].fit_score)
        => PlaceOf(original, recs[i].link) < PlaceOf(original, recs[j].link)

\* C24: the records handed to the document store and the export, and the
\* capped sequence handed to the email renderer, are ordered by non-increasing
\* fit_score as it is after the re-score pass, and records of equal score are
\* in the order they had in the deduplicated, seen-filtered set.
C24_DeliveredInRankOrder ==
    (pc = "returned" /\ call.fn = "rank") =>
        /\ NonIncreasing(result.value.records)
        /\ TiesInOrderOf(result.value.records, call.records)
        /\ NonIncreasing(result.value.top_records)
        /\ TiesInOrderOf(result.value.top_records, call.records)

\* C24, the case: the re-score pass raised the last record above the first
\* and made the other two equal, and all three are handed to the email.
C24_Witness ==
    /\ pc = "returned"
    /\ call.fn = "rank"
    /\ Len(call.records) = 3
    /\ result.value.records[1].link = call.records[3].link
    /\ result.value.records[2].link = call.records[1].link
    /\ result.value.records[2].fit_score = result.value.records[3].fit_score
    /\ call.records[1].fit_score > call.records[2].fit_score
    /\ Len(result.value.top_records) = 3

\* C25: every record handed to the document store, the export and the email,
\* and every record whose link a commit stamps, has a fit_score of at least
\* MIN_SCORE, whether or not the re-score pass changed it.
C25_DeliveredAtLeastMinScore ==
    pc \in {"firestore", "export", "deliver", "commit"} =>
        /\ \A i \in 1..Len(records) : records[i].fit_score >= MIN_SCORE
        /\ \A i \in 1..Len(top_records) : top_records[i].fit_score >= MIN_SCORE

\* The text names minutes as a unit, in full or abbreviated ("admin" does not).
MinuteUnit(text) == \E word \in text.words : Lower(word) \in {"minutes", "mins"}
\* The relative-time rules 1-6 as the specification words them: which rule a
\* posted_text matches first (0: none), a unit rule needing a number.
RuleMatched(text) ==
    IF Contains(text, "just now") \/ Contains(text, "today") THEN 1
    ELSE IF Contains(text, "yesterday") THEN 2
    ELSE IF text.number # NoNumber /\ MinuteUnit(text) THEN 3
    ELSE IF text.number # NoNumber /\ Contains(text, "hour") THEN 4
    ELSE IF text.number # NoNumber /\ Contains(text, "day") THEN 5
    ELSE IF text.number # NoNumber /\ Contains(text, "week") THEN 6
    ELSE 0

\* C26: when posted_text matches none of the relative-time rules and
\* posted_date is present and parseable, parse_posted_within_window returns
\* true if and only if the parsed instant is at most window_hours hours
\* before now_utc.
C26_DateFallbackExact ==
    (/\ pc = "returned"
     /\ call.fn = "parse_posted_within_window"
     /\ RuleMatched(call.posted_text) = 0
     /\ call.posted_date.kind = "instant")
    => result = Returned(call.posted_date.age <= call.window_hours)

\* What the matched rule gives: true for rules 1 and 3, and for the others a
\* comparison of the text's age with window_hours.
RuleGives(text, window_hours) ==
    CASE RuleMatched(text) \in {1, 3} -> TRUE
      [] RuleMatched(text) = 2 -> window_hours >= 24
      [] RuleMatched(text) = 4 -> text.number <= window_hours
      [] RuleMatched(text) = 5 -> text.number * 24 <= window_hours
      [] OTHER -> text.number * 7 * 24 <= window_hours

\* C27: whenever posted_text matches one of the relative-time rules 1-6,
\* parse_posted_within_window returns what the first rule matched gives,
\* whatever posted_date is.
C27_TextBeforeDate ==
    (/\ pc = "returned"
     /\ call.fn = "parse_posted_within_window"
     /\ RuleMatched(call.posted_text) # 0)
    => result = Returned(RuleGives(call.posted_text, call.window_hours))

\* The record is one filter_new_records lets through a cache.
PassesCache(record, seen) == record.link = "" \/ record.link \notin DOMAIN seen

\* C28: filter_new_records returns, in their input order, exactly the records
\* whose link is empty or is no key of the cache.
C28_FilterDropsExactlySeen ==
    (pc = "returned" /\ call.fn = "filter_new_records") =>
        result.value = SelectSeq(call.records, LAMBDA r : PassesCache(r, call.seen))

\* C28, the case: of three records, the one with a cached link was dropped
\* and the one with an empty link was kept although the cache has that key.
C28_Witness ==
    /\ pc = "returned"
    /\ call.fn = "filter_new_records"
    /\ Len(call.records) = 3
    /\ "" \in DOMAIN call.seen
    /\ call.records[1].link = ""
    /\ call.records[2].link \in DOMAIN call.seen \ {""}
    /\ call.records[3].link \notin DOMAIN call.seen
    /\ result.value = <<call.records[1], call.records[3]>>

\* The links whose entry in a cache file is unexpired now: ISO-8601 and at
\* most SEEN_CACHE_DAYS days old.
Unexpired(cache) ==
    {l \in DOMAIN cache :
        /\ cache[l].iso
        /\ now_utc - InstantOf(cache[l]) <= SEEN_CACHE_DAYS * HoursPerDay}

\* C29: the cache a committing run saves holds every unexpired entry of the
\* file it loaded, denoting the instant it denoted (also when the link was
\* collected again in this run), and an entry stamped now for every other
\* non-empty link of the run's records, and nothing else: an entry is stamped
\* anew only once it has expired.
C29_CommitNeverRefreshes ==
    (pc = "returned" /\ call.fn = "commit") =>
        LET listed == LinksOf(call.records) \ {""}
        IN  /\ DOMAIN result.value = Unexpired(call.cache) \cup listed
            /\ \A l \in Unexpired(call.cache) :
                  InstantOf(result.value[l]) = InstantOf(call.cache[l])
            /\ \A l \in listed \ Unexpired(call.cache) :
                  result.value[l] = Stamp(now_utc)

\* C29, the case: a link stamped a day ago and a link stamped an hour more
\* than SEEN_CACHE_DAYS days ago are both collected again: the first keeps
\* its timestamp, the second is stamped now.
C29_Witness ==
    /\ pc = "returned"
    /\ call.fn = "commit"
    /\ {"a", "b"} \subseteq LinksOf(call.records)
    /\ {"a", "b"} \subseteq DOMAIN call.cache
    /\ call.cache["a"] = Stamp(now_utc - HoursPerDay)
    /\ call.cache["b"] = Stamp(now_utc - SEEN_CACHE_DAYS * HoursPerDay - 1)
    /\ result.value["a"] = Stamp(now_utc - HoursPerDay)
    /\ result.value["b"] = Stamp(now_utc)

\* C30: for every company and every sequence of server responses, the
\* pagination loop of smartrecruiters_search ends: the function returns (or
\* is left by an exception) and does not request pages forever.
C30_PaginationTerminates == <>(pc \in {"sr_returned", "sr_raised"})

====
